---- MODULE Spec2Model ----
(***************************************************************************)
(* Model promotion and versioning protocol of generic-forecast.            *)
(*                                                                         *)
(* Shared state: the registry file models/production_model.json and the    *)
(* artifact files models/<model_id>_model_<version>.joblib.  Each run is   *)
(* one call of a use case (forecast training, anomaly training, predict,   *)
(* detect); background training tasks and requests interleave at every     *)
(* access to a file.                                                       *)
(*                                                                         *)
(* Abstractions: rmse and training_samples are small naturals (only their  *)
(* order is read); the "mae" metric and "timestamp_promoted" are carried   *)
(* by the code but never read by it and are left out; a model_id is the    *)
(* pair of the two strings its f-string joins, an artifact path the pair   *)
(* (model_id, version).                                                    *)
(*                                                                         *)
(* The two model adapters (ProphetModel, AnomalyDetectionModel) and        *)
(* _get_next_version are also modelled on their own (SpecForecast,         *)
(* SpecAnomaly, SpecNextVersion): timestamps count hours, a series is the  *)
(* sequence of its timestamps, a frame the sequence of its numeric columns *)
(* with its number of rows; fitted values and labels are left out.         *)
(***************************************************************************)
EXTENDS Integers, Sequences, FiniteSets, TLC

\* ---------------------------------------------------------------- bounds
MaxRmse == 2
MaxSamples == 2
\* use-case calls issued in one behaviour
MaxCalls == 3
\* rows of an input frame
MaxRows == 2
\* timestamps of an input series are the hours 0..MaxTime
MaxTime == 3
\* points of an input series
MaxLen == 3
\* largest n_predict
MaxSteps == 2
\* largest version number of a registry given as input
MaxVersion == 10

Runs == {"r1", "r2"}
Apps == {"S1"}
TargetColumns == {"AUTORIZADA", "DENEGADA"}
\* a target column a request may name that is no field of ForecastInputData
UnknownColumn == "OUTRA"

\* ------------------------------------------------------------ data model
\* the fields of ForecastInputData, i.e. df.columns
DfColumns ==
  {"DIA", "HORA", "DIA_DA_SEMANA", "RASCUNHO", "AGUARDANDO_PAGAMENTO",
   "A_TRANSMITIR", "EM_PROCESSAMENTO", "AUTORIZADA", "DENEGADA", "CANCELADA",
   "REJEITADA", "ERRO_SCHEMA"}

\* Python's None
None == [none |-> TRUE]

\* str.lower() on the app ids of the model
Lower(app_id) == IF app_id = "S1" THEN "s1" ELSE app_id

\* model_id = f"{app_id}_{target_column}"
ForecastModelId(app_id, target_column) == <<app_id, target_column>>

\* model_id = f"{app_id.lower()}_multivariate_anomaly"
AnomalyModelId(app_id) == <<Lower(app_id), "multivariate_anomaly">>

ModelIds ==
  {ForecastModelId(a, t) : a \in Apps, t \in TargetColumns}
    \cup {AnomalyModelId(a) : a \in Apps}

\* ------------------------------------------------------- version strings
Digit(d) == <<"0", "1", "2", "3", "4", "5", "6", "7", "8", "9">>[d + 1]

DigitValue(c) == CHOOSE d \in 0..9 : Digit(d) = c

IsDigit(c) == \E d \in 0..9 : Digit(d) = c

RECURSIVE Decimal(_)
\* str(n) for n >= 0
Decimal(n) == IF n < 10 THEN <<Digit(n)>> ELSE Decimal(n \div 10) \o <<Digit(n % 10)>>

\* f"v{next_version_num}"
FormatVersion(n) == <<"v">> \o Decimal(n)

\* version.replace("v", "")
StripV(s) == SelectSeq(s, LAMBDA c : c # "v")

RECURSIVE DigitsValue(_)
DigitsValue(s) ==
  IF s = <<>> THEN 0
  ELSE 10 * DigitsValue(SubSeq(s, 1, Len(s) - 1)) + DigitValue(s[Len(s)])

\* int(s): ok is FALSE where Python raises ValueError
ParseInt(s) ==
  IF s # <<>> /\ \A i \in 1..Len(s) : IsDigit(s[i])
  THEN [ok |-> TRUE, value |-> DigitsValue(s)]
  ELSE [ok |-> FALSE, value |-> 0]

\* ---------------------------------------------------------- registry file
EmptyDict == <<>>

DictPut(d, k, v) == [x \in (DOMAIN d) \cup {k} |-> IF x = k THEN v ELSE d[x]]

\* no file at PRODUCTION_MODEL_INFO_PATH
AbsentFile ==
  [exists |-> FALSE, readable |-> FALSE, valid |-> FALSE, data |-> EmptyDict]

\* a file whose text json.load rejects; open(path, 'w') leaves the empty text
InvalidFile ==
  [exists |-> TRUE, readable |-> TRUE, valid |-> FALSE, data |-> EmptyDict]

\* a file that exists and that open() or read() fails on (an OSError)
UnreadableFile ==
  [exists |-> TRUE, readable |-> FALSE, valid |-> FALSE, data |-> EmptyDict]

JsonFileNotWritten(production_info) == InvalidFile

\* the file json.dump(production_info, f) leaves
JsonFile(production_info) ==
  [exists |-> TRUE, readable |-> TRUE, valid |-> TRUE, data |-> production_info]

\* file_path = os.path.join(MODELS_DIR, f"{app_id}_model_{version}.joblib")
FilePath(app_id, version) == <<app_id, version>>

\* the value update_production_model_info stores under production_info[app_id]
Entry(version, path, metrics) == [version |-> version, path |-> path, metrics |-> metrics]

\* _get_next_version(app_id) on the registry file as read: only the
\* JSONDecodeError of json.load is caught, an OSError of open() propagates
GetNextVersion(file, app_id) ==
  LET app_info == IF file.exists /\ file.valid /\ app_id \in DOMAIN file.data
                  THEN file.data[app_id] ELSE None
      parsed == IF app_info # None /\ "version" \in DOMAIN app_info
                THEN ParseInt(StripV(app_info.version))
                ELSE [ok |-> FALSE, value |-> 0]
      current_version_num == IF parsed.ok THEN parsed.value ELSE 0
  IN IF file.exists /\ ~file.readable
     THEN [status |-> "OSError", version |-> None]
     ELSE [status |-> "ok", version |-> FormatVersion(current_version_num + 1)]

\* load_production_model_info(app_id) on the registry file as read
LoadProductionModelInfo(file, app_id) ==
  IF ~file.exists THEN None
  ELSE IF ~file.valid THEN None
  ELSE IF app_id \in DOMAIN file.data THEN file.data[app_id] ELSE None

\* the dict update_production_model_info starts from
ReadProductionInfo(file) ==
  IF file.exists /\ file.valid THEN file.data ELSE EmptyDict

\* ------------------------------------------------------------- use cases
PromoteNewModelOnTie(production_model_info, new_model_metrics) ==
  IF production_model_info = None THEN TRUE
  ELSE new_model_metrics.rmse <= production_model_info.metrics.rmse

PromoteNewModelNeverFirst(production_model_info, new_model_metrics) ==
  /\ production_model_info # None
  /\ new_model_metrics.rmse < production_model_info.metrics.rmse

\* the promotion decision of TrainModelUseCase.execute
PromoteNewModel(production_model_info, new_model_metrics) ==
  IF production_model_info = None THEN TRUE
  ELSE new_model_metrics.rmse < production_model_info.metrics.rmse

\* what a finished call hands back: a response or the exception raised
Response(status, model_id, model_version, metrics) ==
  [status |-> status, model_id |-> model_id, model_version |-> model_version,
   metrics |-> metrics]

NotPromotedResponseWithoutMetrics(model_id, new_model_metrics) ==
  Response("ok", model_id, None, None)

\* TrainResponse of a candidate that was not promoted
NotPromotedResponse(model_id, new_model_metrics) ==
  Response("ok", model_id, None, new_model_metrics)

\* TrainResponse of a promoted candidate, and of a saved anomaly model
TrainedResponse(model_id, model_version, metrics) ==
  Response("ok", model_id, model_version, metrics)

Raised(exception, model_id) == Response(exception, model_id, None, None)

\* no call has been made on an adapter
NoCall == [op |-> "none", status |-> "none", trained |-> FALSE]

NoResponse == Response("none", None, None, None)

VARIABLES
  regFile,                \* models/production_model.json
  store,                  \* artifact files: path -> the object dumped
  pc,                     \* where each run stands
  op,                     \* the use case each run executes
  model_id,               \* local model_id
  metrics,                \* local new_model_metrics / metrics
  production_model_info,  \* local of the use case (load_production_model_info)
  version,                \* local of save_model
  production_info,        \* local of update_production_model_info
  caller,                 \* the call site update_production_model_info returns to
  result,                 \* what the last call of the run returned or raised
  calls,                  \* use-case calls issued so far
  served_before,          \* history: the servable entry of the run's model id at its start
  feature_columns,        \* AnomalyDetectionModel.feature_columns
  scaler,                 \* AnomalyDetectionModel.scaler: the features it was fitted on
  prophet,                \* ProphetModel.model
  last_call               \* the last call on an adapter: arguments, return or exception

vars ==
  <<regFile, store, pc, op, model_id, metrics, production_model_info, version,
    production_info, caller, result, calls, served_before,
    feature_columns, scaler, prophet, last_call>>

shared == <<regFile, store>>

\* the model adapters, which the use-case steps below treat as opaque
adapters == <<feature_columns, scaler, prophet, last_call>>

\* the state of the use cases and of the repository
use_cases ==
  <<regFile, store, pc, op, model_id, metrics, production_model_info, version,
    production_info, caller, result, calls, served_before>>

\* everything but the registry file: no artifact, no call made, the adapters
\* as constructed
InitRuns ==
  /\ store = EmptyDict
  /\ pc = [r \in Runs |-> "idle"]
  /\ op = [r \in Runs |-> "none"]
  /\ model_id = [r \in Runs |-> None]
  /\ metrics = [r \in Runs |-> None]
  /\ production_model_info = [r \in Runs |-> None]
  /\ version = [r \in Runs |-> None]
  /\ production_info = [r \in Runs |-> EmptyDict]
  /\ caller = [r \in Runs |-> "none"]
  /\ result = [r \in Runs |-> NoResponse]
  /\ calls = 0
  /\ served_before = [r \in Runs |-> None]
  /\ feature_columns = <<>>
  /\ scaler = None
  /\ prophet = None
  /\ last_call = NoCall

Init ==
  /\ regFile \in {AbsentFile, InvalidFile}
  /\ InitRuns

\* the production entry of app_id when its artifact exists, else None
ServableEntry(file, files, app_id) ==
  LET info == LoadProductionModelInfo(file, app_id) IN
    IF info # None /\ info.path \in DOMAIN files THEN info ELSE None

\* a run enters a use case: its locals are fresh
Enter(r, use_case, mid, m, next) ==
  /\ pc[r] = "idle"
  /\ calls < MaxCalls
  /\ calls' = calls + 1
  /\ pc' = [pc EXCEPT ![r] = next]
  /\ op' = [op EXCEPT ![r] = use_case]
  /\ model_id' = [model_id EXCEPT ![r] = mid]
  /\ metrics' = [metrics EXCEPT ![r] = m]
  /\ production_model_info' = [production_model_info EXCEPT ![r] = None]
  /\ version' = [version EXCEPT ![r] = None]
  /\ production_info' = [production_info EXCEPT ![r] = EmptyDict]
  /\ caller' = [caller EXCEPT ![r] = "none"]
  /\ served_before' =
       [served_before EXCEPT ![r] = ServableEntry(regFile, store, mid)]
  /\ UNCHANGED <<shared, adapters>>

\* a run leaves its use case with a response or an exception
Leave(r, response) ==
  /\ pc' = [pc EXCEPT ![r] = "idle"]
  /\ result' = [result EXCEPT ![r] = response]

\* TrainModelUseCase.execute up to the evaluation of the candidate
TrainBegin(r) ==
  \E app_id \in Apps, target_column \in TargetColumns, rmse \in 1..MaxRmse :
    /\ Enter(r, "train", ForecastModelId(app_id, target_column), [rmse |-> rmse],
             "load_info")
    /\ result' = [result EXCEPT ![r] = NoResponse]

\* TrainModelUseCase.execute failing before it reads the registry
TrainInvalid(r) ==
  \E app_id \in Apps, target_column \in TargetColumns \cup {UnknownColumn},
     failure \in {"empty", "column", "parse", "fit", "evaluate"} :
    /\ (target_column \in DfColumns) = (failure # "column")
    /\ Enter(r, "train", ForecastModelId(app_id, target_column), None, "idle")
    /\ result' = [result EXCEPT ![r] =
         Raised(IF failure \in {"fit", "evaluate"} THEN "Exception" ELSE "ValueError",
                ForecastModelId(app_id, target_column))]

\* load_production_model_info and the promotion decision
TrainLoadInfo(r) ==
  /\ pc[r] = "load_info"
  /\ LET info == LoadProductionModelInfo(regFile, model_id[r]) IN
       /\ production_model_info' = [production_model_info EXCEPT ![r] = info]
       /\ IF PromoteNewModel(info, metrics[r])
          THEN /\ pc' = [pc EXCEPT ![r] = "next_version"]
               /\ UNCHANGED result
          ELSE Leave(r, NotPromotedResponse(model_id[r], metrics[r]))
  /\ UNCHANGED <<shared, op, model_id, metrics, version, production_info, caller, calls,
                 served_before, adapters>>

\* TrainAnomalyModelUseCase.execute up to the call of save_model
TrainAnomalyBegin(r) ==
  \E app_id \in Apps, training_samples \in 1..MaxSamples :
    /\ Enter(r, "train_anomaly", AnomalyModelId(app_id),
             [training_samples |-> training_samples], "next_version")
    /\ result' = [result EXCEPT ![r] = NoResponse]

\* TrainAnomalyModelUseCase.execute failing before it saves
TrainAnomalyInvalid(r) ==
  \E app_id \in Apps, failure \in {"empty", "parse", "fit"} :
    /\ Enter(r, "train_anomaly", AnomalyModelId(app_id), None, "idle")
    /\ result' = [result EXCEPT ![r] =
         Raised(IF failure = "fit" THEN "Exception" ELSE "ValueError",
                AnomalyModelId(app_id))]

\* save_model: version = _get_next_version(app_id)
SaveNextVersion(r) ==
  /\ pc[r] = "next_version"
  /\ LET next == GetNextVersion(regFile, model_id[r]) IN
       IF next.status = "ok"
       THEN /\ version' = [version EXCEPT ![r] = next.version]
            /\ pc' = [pc EXCEPT ![r] = "upd_read"]
            /\ caller' = [caller EXCEPT ![r] = "save_model"]
            /\ UNCHANGED result
       ELSE /\ Leave(r, Raised("Exception", model_id[r]))
            /\ UNCHANGED <<version, caller>>
  /\ UNCHANGED <<shared, op, model_id, metrics, production_model_info,
                 production_info, calls, served_before, adapters>>

\* update_production_model_info: read the current registry
UpdateRead(r) ==
  /\ pc[r] = "upd_read"
  /\ production_info' = [production_info EXCEPT ![r] = ReadProductionInfo(regFile)]
  /\ pc' = [pc EXCEPT ![r] = "upd_open"]
  /\ UNCHANGED <<shared, op, model_id, metrics, production_model_info, version,
                 caller, result, calls, served_before, adapters>>

\* update_production_model_info: open(PRODUCTION_MODEL_INFO_PATH, 'w') truncates
UpdateOpen(r) ==
  /\ pc[r] = "upd_open"
  /\ regFile' = InvalidFile
  /\ pc' = [pc EXCEPT ![r] = "upd_write"]
  /\ UNCHANGED <<store, op, model_id, metrics, production_model_info, version,
                 production_info, caller, result, calls, served_before, adapters>>

\* variant: save_model does not touch the registry, only the use case's own
\* call of update_production_model_info writes it
UpdateWriteOnlyFromExecute(r) ==
  /\ pc[r] = "upd_write"
  /\ regFile' = IF caller[r] = "save_model"
                THEN JsonFile(production_info[r])
                ELSE JsonFile(DictPut(production_info[r], model_id[r],
                       Entry(version[r], FilePath(model_id[r], version[r]), metrics[r])))
  /\ production_info' = [production_info EXCEPT ![r] = EmptyDict]
  /\ caller' = [caller EXCEPT ![r] = "none"]
  /\ IF caller[r] = "save_model"
     THEN /\ pc' = [pc EXCEPT ![r] = "dump"]
          /\ UNCHANGED result
     ELSE Leave(r, TrainedResponse(model_id[r], version[r], metrics[r]))
  /\ UNCHANGED <<store, op, model_id, metrics, production_model_info, version, calls,
                 served_before, adapters>>

\* update_production_model_info: json.dump of the dict with the entry set
UpdateWrite(r) ==
  /\ pc[r] = "upd_write"
  /\ regFile' = JsonFile(DictPut(production_info[r], model_id[r],
                   Entry(version[r], FilePath(model_id[r], version[r]), metrics[r])))
  /\ production_info' = [production_info EXCEPT ![r] = EmptyDict]
  /\ caller' = [caller EXCEPT ![r] = "none"]
  /\ IF caller[r] = "save_model"
     THEN /\ pc' = [pc EXCEPT ![r] = "dump"]
          /\ UNCHANGED result
     ELSE Leave(r, TrainedResponse(model_id[r], version[r], metrics[r]))
  /\ UNCHANGED <<store, op, model_id, metrics, production_model_info, version, calls,
                 served_before, adapters>>

\* save_model: joblib.dump(model, file_path), then the return to the use case
SaveDump(r) ==
  /\ pc[r] = "dump"
  /\ store' = DictPut(store, FilePath(model_id[r], version[r]),
                      [model_id |-> model_id[r], metrics |-> metrics[r]])
  /\ IF op[r] = "train"
     THEN /\ pc' = [pc EXCEPT ![r] = "upd_read"]
          /\ caller' = [caller EXCEPT ![r] = "execute"]
          /\ UNCHANGED result
     ELSE /\ Leave(r, TrainedResponse(model_id[r], version[r], metrics[r]))
          /\ UNCHANGED caller
  /\ UNCHANGED <<regFile, op, model_id, metrics, production_model_info, version,
                 production_info, calls, served_before, adapters>>

\* save_model: joblib.dump raises (the file cannot be written)
SaveDumpFails(r) ==
  /\ pc[r] = "dump"
  /\ Leave(r, Raised("Exception", model_id[r]))
  /\ UNCHANGED <<shared, op, model_id, metrics, production_model_info, version,
                 production_info, caller, calls,
                 served_before, adapters>>

\* PredictForecastUseCase.execute up to the read of the registry
PredictBegin(r) ==
  \E app_id \in Apps, target_column \in TargetColumns :
    /\ Enter(r, "predict", ForecastModelId(app_id, target_column), None, "p_load_info")
    /\ result' = [result EXCEPT ![r] = NoResponse]

\* PredictForecastUseCase.execute failing on its input
PredictInvalid(r) ==
  \E app_id \in Apps, target_column \in TargetColumns \cup {UnknownColumn},
     failure \in {"empty", "column", "parse"} :
    /\ (target_column \in DfColumns) = (failure # "column")
    /\ Enter(r, "predict", ForecastModelId(app_id, target_column), None, "idle")
    /\ result' = [result EXCEPT ![r] =
         Raised("ValueError", ForecastModelId(app_id, target_column))]

\* variant: the read of an invalid registry file rewrites it as an empty dict
PredictLoadInfoRepairing(r) ==
  /\ pc[r] = "p_load_info"
  /\ op[r] = "predict"
  /\ LET info == LoadProductionModelInfo(regFile, model_id[r]) IN
       /\ production_model_info' = [production_model_info EXCEPT ![r] = info]
       /\ IF info = None
          THEN Leave(r, Raised("ValueError", model_id[r]))
          ELSE /\ pc' = [pc EXCEPT ![r] = "p_load_model"]
               /\ UNCHANGED result
  /\ regFile' = IF regFile = InvalidFile THEN JsonFile(EmptyDict) ELSE regFile
  /\ UNCHANGED <<store, op, model_id, metrics, version, production_info, caller, calls,
                 served_before, adapters>>

\* PredictForecastUseCase.execute: load_production_model_info(model_id)
PredictLoadInfo(r) ==
  /\ pc[r] = "p_load_info"
  /\ op[r] = "predict"
  /\ LET info == LoadProductionModelInfo(regFile, model_id[r]) IN
       /\ production_model_info' = [production_model_info EXCEPT ![r] = info]
       /\ IF info = None
          THEN Leave(r, Raised("ValueError", model_id[r]))
          ELSE /\ pc' = [pc EXCEPT ![r] = "p_load_model"]
               /\ UNCHANGED result
  /\ UNCHANGED <<shared, op, model_id, metrics, version, production_info, caller, calls,
                 served_before, adapters>>

\* load_model(app_id, version) on the artifact files as found
LoadModel(files, app_id, model_version) ==
  IF FilePath(app_id, model_version) \in DOMAIN files
  THEN [found |-> TRUE, model |-> files[FilePath(app_id, model_version)]]
  ELSE [found |-> FALSE, model |-> None]

\* variant: the FileNotFoundError of load_model is not caught by the use case
PredictLoadModelUncaught(r) ==
  /\ pc[r] = "p_load_model"
  /\ op[r] = "predict"
  /\ LET loaded == LoadModel(store, model_id[r], production_model_info[r].version) IN
       IF ~loaded.found
       THEN Leave(r, Raised("FileNotFoundError", model_id[r]))
       ELSE \E outcome \in {"ok", "ValueError"} :
              Leave(r, IF outcome = "ok"
                       THEN Response("ok", model_id[r], production_model_info[r].version,
                                     loaded.model)
                       ELSE Raised(outcome, model_id[r]))
  /\ UNCHANGED <<shared, op, model_id, metrics, production_model_info, version,
                 production_info, caller, calls, served_before, adapters>>

\* PredictForecastUseCase.execute: load_model, then prophet_model.predict
PredictLoadModel(r) ==
  /\ pc[r] = "p_load_model"
  /\ op[r] = "predict"
  /\ LET loaded == LoadModel(store, model_id[r], production_model_info[r].version) IN
       IF ~loaded.found
       THEN Leave(r, Raised("ValueError", model_id[r]))
       ELSE \E outcome \in {"ok", "ValueError"} :
              Leave(r, IF outcome = "ok"
                       THEN Response("ok", model_id[r], production_model_info[r].version,
                                     loaded.model)
                       ELSE Raised(outcome, model_id[r]))
  /\ UNCHANGED <<shared, op, model_id, metrics, production_model_info, version,
                 production_info, caller, calls,
                 served_before, adapters>>

\* DetectAnomaliesUseCase.execute up to the read of the registry
DetectBegin(r) ==
  \E app_id \in Apps :
    /\ Enter(r, "detect", AnomalyModelId(app_id), None, "p_load_info")
    /\ result' = [result EXCEPT ![r] = NoResponse]

\* DetectAnomaliesUseCase.execute failing on its input
DetectInvalid(r) ==
  \E app_id \in Apps, failure \in {"empty", "parse"} :
    /\ Enter(r, "detect", AnomalyModelId(app_id), None, "idle")
    /\ result' = [result EXCEPT ![r] = Raised("ValueError", AnomalyModelId(app_id))]

\* DetectAnomaliesUseCase.execute: load_production_model_info(model_id)
DetectLoadInfo(r) ==
  /\ pc[r] = "p_load_info"
  /\ op[r] = "detect"
  /\ LET info == LoadProductionModelInfo(regFile, model_id[r]) IN
       /\ production_model_info' = [production_model_info EXCEPT ![r] = info]
       /\ IF info = None \/ "version" \notin DOMAIN info
          THEN Leave(r, Raised("ValueError", model_id[r]))
          ELSE /\ pc' = [pc EXCEPT ![r] = "p_load_model"]
               /\ UNCHANGED result
  /\ UNCHANGED <<shared, op, model_id, metrics, version, production_info, caller, calls,
                 served_before, adapters>>

\* DetectAnomaliesUseCase.execute: load_model, then model.predict
DetectLoadModel(r) ==
  /\ pc[r] = "p_load_model"
  /\ op[r] = "detect"
  /\ LET loaded == LoadModel(store, model_id[r], production_model_info[r].version) IN
       IF ~loaded.found
       THEN Leave(r, Raised("FileNotFoundError", model_id[r]))
       ELSE \E outcome \in {"ok", "Exception"} :
              Leave(r, IF outcome = "ok"
                       THEN Response("ok", model_id[r], production_model_info[r].version,
                                     loaded.model)
                       ELSE Raised(outcome, model_id[r]))
  /\ UNCHANGED <<shared, op, model_id, metrics, production_model_info, version,
                 production_info, caller, calls,
                 served_before, adapters>>

Step(r) ==
  \/ TrainBegin(r)
  \/ TrainInvalid(r)
  \/ TrainLoadInfo(r)
  \/ TrainAnomalyBegin(r)
  \/ TrainAnomalyInvalid(r)
  \/ SaveNextVersion(r)
  \/ UpdateRead(r)
  \/ UpdateOpen(r)
  \/ UpdateWrite(r)
  \/ SaveDump(r)
  \/ SaveDumpFails(r)
  \/ PredictBegin(r)
  \/ PredictInvalid(r)
  \/ PredictLoadInfo(r)
  \/ PredictLoadModel(r)
  \/ DetectBegin(r)
  \/ DetectInvalid(r)
  \/ DetectLoadInfo(r)
  \/ DetectLoadModel(r)

Next == \E r \in Runs : Step(r)

Spec == Init /\ [][Next]_vars

\* no other call is in progress
Alone(r) == \A q \in Runs \ {r} : pc[q] = "idle"

\* one call at a time: a call starts only when no other call is in progress
NextSeq ==
  \E r \in Runs :
    \/ Alone(r) /\ TrainBegin(r)
    \/ Alone(r) /\ TrainInvalid(r)
    \/ Alone(r) /\ TrainAnomalyBegin(r)
    \/ Alone(r) /\ TrainAnomalyInvalid(r)
    \/ Alone(r) /\ PredictBegin(r)
    \/ Alone(r) /\ PredictInvalid(r)
    \/ Alone(r) /\ DetectBegin(r)
    \/ Alone(r) /\ DetectInvalid(r)
    \/ TrainLoadInfo(r)
    \/ SaveNextVersion(r)
    \/ UpdateRead(r)
    \/ UpdateOpen(r)
    \/ UpdateWrite(r)
    \/ SaveDump(r)
    \/ SaveDumpFails(r)
    \/ PredictLoadInfo(r)
    \/ PredictLoadModel(r)
    \/ DetectLoadInfo(r)
    \/ DetectLoadModel(r)

SpecSeq == Init /\ [][NextSeq]_vars

\* ------------------------------------------- the anomaly model adapter
\* a feature column of features_df: an input column (no statistic), a rolling
\* statistic of an input column, or a time feature of the index
Feature(col, stat, window) == <<col, stat, window>>

windows == <<5, 15, 60>>

RollingStats == <<"rolling_mean", "rolling_std", "rolling_sum">>

TimeFeatures ==
  <<Feature("hour", "", 0), Feature("dayofweek", "", 0), Feature("dayofyear", "", 0),
    Feature("month", "", 0), Feature("year", "", 0)>>

\* the rolling features added for one column: per window its mean, std, sum
RollingFeatures(col) ==
  [i \in 1..(Len(windows) * Len(RollingStats)) |->
     Feature(col, RollingStats[((i - 1) % Len(RollingStats)) + 1],
             windows[((i - 1) \div Len(RollingStats)) + 1])]

RECURSIVE RollingFeaturesOf(_)
RollingFeaturesOf(numerical_cols) ==
  IF numerical_cols = <<>> THEN <<>>
  ELSE RollingFeatures(Head(numerical_cols)) \o RollingFeaturesOf(Tail(numerical_cols))

\* the columns of the frame _create_features returns
CreateFeatures(columns) ==
  [i \in 1..Len(columns) |-> Feature(columns[i], "", 0)]
    \o RollingFeaturesOf(columns) \o TimeFeatures

Range(seq) == {seq[i] : i \in 1..Len(seq)}

\* predict: add each missing column of the schema at the end, then select
\* the columns of the schema in the order of the schema
Reconcile(columns, schema) ==
  LET missing == SelectSeq(schema, LAMBDA col : col \notin Range(columns))
      completed == columns \o missing
  IN SelectSeq(schema, LAMBDA col : col \in Range(completed))

\* StandardScaler.transform on a frame: it raises a ValueError when the number
\* of features differs from fit; with as many features under other names or
\* in another order it raises or transforms, depending on the library version
ScalerTransform(fitted, columns) ==
  IF columns = fitted THEN {"ok"}
  ELSE IF Len(columns) # Len(fitted) THEN {"ValueError"}
  ELSE {"ok", "ValueError"}

\* the input frames: the numeric columns in their order, the number of rows,
\* and whether the index is a DatetimeIndex
ColumnOrders ==
  {<<>>} \cup {<<a>> : a \in TargetColumns}
         \cup {<<a, b>> : <<a, b>> \in {c \in TargetColumns \X TargetColumns : c[1] # c[2]}}

Frames == [columns : ColumnOrders, rows : 0..MaxRows, datetime_index : BOOLEAN]

\* DataFrame.empty: no rows or no columns
Empty(df) == df.rows = 0 \/ df.columns = <<>>

AnomalyCall(name, df, status, scored, labels) ==
  [op |-> name, df |-> df, status |-> status, scored |-> scored, labels |-> labels]

\* AnomalyDetectionModel.train
AnomalyTrain ==
  \E df \in Frames :
    /\ IF Empty(df) \/ ~df.datetime_index
       THEN /\ last_call' = AnomalyCall("train", df, "ValueError", <<>>, 0)
            /\ UNCHANGED <<feature_columns, scaler>>
       ELSE /\ feature_columns' = CreateFeatures(df.columns)
            /\ scaler' = [features |-> CreateFeatures(df.columns)]
            /\ last_call' = AnomalyCall("train", df, "ok", <<>>, 0)
    /\ UNCHANGED <<use_cases, prophet>>

\* AnomalyDetectionModel.predict on a frame with at least one row
AnomalyPredict ==
  \E df \in Frames :
    /\ df.rows > 0
    /\ IF scaler = None
       THEN /\ last_call' = AnomalyCall("predict", df, "RuntimeError", <<>>, 0)
            /\ UNCHANGED feature_columns
       ELSE IF ~df.datetime_index
       THEN /\ last_call' = AnomalyCall("predict", df, "ValueError", <<>>, 0)
            /\ UNCHANGED feature_columns
       ELSE LET features_df == CreateFeatures(df.columns)
                \* _create_features has assigned self.feature_columns
                schema == features_df
                scored == Reconcile(features_df, schema)
            IN /\ feature_columns' = schema
               /\ \E status \in ScalerTransform(scaler.features, scored) :
                    last_call' = AnomalyCall("predict", df, status, scored,
                                             IF status = "ok" THEN df.rows ELSE 0)
    /\ UNCHANGED <<use_cases, prophet, scaler>>

NextAnomaly == AnomalyTrain \/ AnomalyPredict

SpecAnomaly == Init /\ [][NextAnomaly]_vars

\* ------------------------------------------ the forecast model adapter
\* timestamps count hours; the default frequency 'D' is one day
Day == 24

Timestamps == 0..MaxTime

\* the index of an input series, in the order given
SeriesIndexes == UNION {[1..k -> Timestamps] : k \in 0..MaxLen}

IndexMax(index) == CHOOSE x \in Range(index) : \A y \in Range(index) : y <= x

RECURSIVE SortAscending(_)
SortAscending(S) ==
  IF S = {} THEN <<>>
  ELSE LET least == CHOOSE x \in S : \A y \in S : x <= y
       IN <<least>> \o SortAscending(S \ {least})

\* pd.infer_freq on an index of hourly timestamps less than a day apart: it
\* raises with fewer than 3 dates, returns None unless the index is unique
\* and monotonic (increasing or decreasing) with a single step, and
\* otherwise returns that (signed) step
InferFreq(index) ==
  LET steps == {index[i + 1] - index[i] : i \in 1..(Len(index) - 1)} IN
    IF Len(index) < 3 THEN [status |-> "ValueError", step |-> 0]
    ELSE IF Cardinality(steps) = 1 /\ 0 \notin steps
    THEN [status |-> "freq", step |-> CHOOSE d \in steps : TRUE]
    ELSE [status |-> "None", step |-> 0]

\* pd.date_range(start=start, periods=periods, freq=step)
DateRange(start, periods, step) == [i \in 1..periods |-> start + (i - 1) * step]

ProphetCall(name, series, n_predict, status, forecast, trained) ==
  [op |-> name, series |-> series, n_predict |-> n_predict, status |-> status,
   forecast |-> forecast, trained |-> trained]

\* ProphetModel.train; Prophet.fit raises on fewer than 2 rows
ProphetTrain ==
  \E series \in SeriesIndexes :
    /\ IF series = <<>>
       THEN /\ last_call' =
                 ProphetCall("train", series, 0, "ValueError", <<>>, last_call.trained)
            /\ UNCHANGED prophet
       ELSE IF Len(series) < 2
       THEN /\ prophet' = [fitted |-> FALSE]
            /\ last_call' =
                 ProphetCall("train", series, 0, "ValueError", <<>>, last_call.trained)
       ELSE /\ prophet' = [fitted |-> TRUE]
            /\ last_call' = ProphetCall("train", series, 0, "ok", <<>>, TRUE)
    /\ UNCHANGED <<use_cases, feature_columns, scaler>>

\* ProphetModel.predict
ProphetPredict ==
  \E series \in SeriesIndexes, n_predict \in (-1)..MaxSteps :
    /\ LET raised(status) ==
             ProphetCall("predict", series, n_predict, status, <<>>, last_call.trained)
       IN IF prophet = None THEN last_call' = raised("RuntimeError")
          ELSE IF n_predict < 0 \/ series = <<>> \/ Len(series) < 2
          THEN last_call' = raised("ValueError")
          ELSE LET last_date_in_series == IndexMax(series)
                   inferred == InferFreq(series)
                   freq == IF inferred.status = "None" THEN Day ELSE inferred.step
                   future_dates_only ==
                     Tail(DateRange(last_date_in_series, n_predict + 1, freq))
                   full_future == Range(series) \cup Range(future_dates_only)
                   future_forecast ==
                     SortAscending({ds \in full_future : ds > last_date_in_series})
               IN IF inferred.status = "ValueError" THEN last_call' = raised("ValueError")
                  ELSE IF ~prophet.fitted THEN last_call' = raised("Exception")
                  ELSE last_call' = ProphetCall("predict", series, n_predict, "ok",
                                                future_forecast, last_call.trained)
    /\ UNCHANGED <<use_cases, feature_columns, scaler, prophet>>

\* ProphetModel.evaluate
ProphetEvaluate ==
  \E series \in SeriesIndexes :
    /\ LET returned(status) ==
             ProphetCall("evaluate", series, 0, status, <<>>, last_call.trained)
       IN IF prophet = None THEN last_call' = returned("RuntimeError")
          ELSE IF series = <<>> THEN last_call' = returned("ValueError")
          ELSE IF ~prophet.fitted THEN last_call' = returned("Exception")
          ELSE last_call' = returned("ok")
    /\ UNCHANGED <<use_cases, feature_columns, scaler, prophet>>

NextForecast == ProphetTrain \/ ProphetPredict \/ ProphetEvaluate

SpecForecast == Init /\ [][NextForecast]_vars

\* ------------------------------------- _get_next_version as a function
\* version strings of an entry: v0, v1, ... and versions with a suffix that
\* is no number
VersionStrings ==
  {FormatVersion(k) : k \in 0..MaxVersion}
    \cup {<<"v">>, <<"v", "x">>, <<"v", "1", "x">>}

\* the dicts a registry file may hold: for some model ids an entry with one
\* of the version strings, or an entry without the key "version"
RegistryDicts ==
  UNION {{[m \in S |->
             IF f[m] = <<>> THEN [path |-> FilePath(m, <<>>), metrics |-> [rmse |-> 1]]
             ELSE Entry(f[m], FilePath(m, f[m]), [rmse |-> 1])] :
            f \in [S -> VersionStrings \cup {<<>>}]} : S \in SUBSET ModelIds}

RegistryFiles ==
  {AbsentFile, InvalidFile, UnreadableFile} \cup {JsonFile(d) : d \in RegistryDicts}

InitNextVersion ==
  /\ regFile \in RegistryFiles
  /\ InitRuns

\* one call of _get_next_version(app_id) on the registry file
GetNextVersionCall ==
  \E app_id \in ModelIds :
    /\ last_call' = [op |-> "_get_next_version", app_id |-> app_id,
                     status |-> GetNextVersion(regFile, app_id).status,
                     version |-> GetNextVersion(regFile, app_id).version]
    /\ UNCHANGED <<use_cases, feature_columns, scaler, prophet>>

NextNextVersion == GetNextVersionCall

SpecNextVersion == InitNextVersion /\ [][NextNextVersion]_vars

\* the /predict route: the HTTP status it answers with for what the use case
\* returned or raised
PredictForecastRoute(status) ==
  IF status = "ok" THEN 200
  ELSE IF status = "ValueError" THEN 400
  ELSE 500

\* ------------------------------------------------------------ properties
HasEntry(file, m) == file.exists /\ file.valid /\ m \in DOMAIN file.data

Quiescent == \A r \in Runs : pc[r] = "idle"

\* the step in which run r returns or raises
Finishes(r) == pc[r] # "idle" /\ pc'[r] = "idle"

\* the step in which run r's joblib.dump writes its artifact
Dumps(r) ==
  /\ pc[r] = "dump"
  /\ \/ pc'[r] = "upd_read"
     \/ pc'[r] = "idle" /\ result'[r].status = "ok"

VersionNumber(v) == ParseInt(StripV(v)).value

ArtifactsOf(m) == {p \in DOMAIN store : p[1] = m}

Min(S) == CHOOSE x \in S : \A y \in S : x <= y

\* C1: in every reachable state each registry entry names a version (and a
\* path) whose artifact exists in the model store.
C1_RegistryPointsToArtifacts ==
  \A m \in ModelIds :
    HasEntry(regFile, m) =>
      /\ FilePath(m, regFile.data[m].version) \in DOMAIN store
      /\ regFile.data[m].path \in DOMAIN store

\* C2: in runs executed one after another, the k-th artifact a forecast
\* lineage writes is saved as version vk: the versions of the successful
\* promotions are v1, v2, v3, ... with none skipped and none reused.
C2_VersionsCountUp ==
  [][\A r \in Runs :
       (op[r] = "train" /\ Dumps(r)) =>
         VersionNumber(version[r]) = Cardinality(ArtifactsOf(model_id[r])) + 1]_vars

C5_SerializedPromotions ==
  \A r, q \in Runs :
    (/\ r # q /\ Quiescent
     /\ op[r] = "train" /\ op[q] = "train"
     /\ result[r].status = "ok" /\ result[q].status = "ok"
     /\ model_id[r] = model_id[q]
     /\ production_model_info[r] = production_model_info[q]) =>
      /\ HasEntry(regFile, model_id[r])
      /\ regFile.data[model_id[r]].metrics.rmse =
           Min({metrics[r].rmse, metrics[q].rmse}
                 \cup (IF production_model_info[r] = None THEN {}
                       ELSE {production_model_info[r].metrics.rmse}))

\* C6: every save writes an artifact key (model id, version) that did not
\* exist before.
C6_ArtifactsImmutable ==
  [][\A r \in Runs :
       Dumps(r) => FilePath(model_id[r], version[r]) \notin DOMAIN store]_vars

\* C7: no step of save_model changes the registry file.
C7_SaveLeavesRegistry ==
  [][\A r \in Runs :
       ((pc[r] \in {"next_version", "dump"} \/ caller[r] = "save_model")
          /\ pc'[r] # pc[r]) => regFile' = regFile]_vars

\* C8: a forecast training run whose candidate is not promoted changes
\* neither the registry nor the model store in any of its steps, and returns
\* the candidate's metrics with no model version.
C8_NotPromotedFrame ==
  [][\A r \in Runs :
       /\ (pc[r] = "idle" /\ pc'[r] = "load_info") =>
            (regFile' = regFile /\ store' = store)
       /\ (pc[r] = "load_info" /\ pc'[r] = "idle") =>
            /\ regFile' = regFile /\ store' = store
            /\ result'[r].status = "ok"
            /\ result'[r].model_version = None
            /\ result'[r].metrics = metrics[r]]_vars

C8_Witness ==
  \E r \in Runs :
    /\ pc[r] = "idle" /\ op[r] = "train" /\ result[r].status = "ok"
    /\ result[r].model_version = None
    /\ result[r].metrics = metrics[r]
    /\ metrics[r].rmse > production_model_info[r].metrics.rmse
    /\ regFile.data[model_id[r]] = production_model_info[r]
    /\ ArtifactsOf(model_id[r]) = {production_model_info[r].path}

\* C9: whenever no call is in progress, every model id whose promotion a
\* returned training run reported still has an entry in the registry.
C9_EntriesNeverDeleted ==
  Quiescent =>
    \A r \in Runs :
      (op[r] \in {"train", "train_anomaly"} /\ result[r].status = "ok"
         /\ result[r].model_version # None) => HasEntry(regFile, model_id[r])

C11_FailedRunLeavesRegistry ==
  [][\A r \in Runs :
       /\ (pc[r] = "idle" /\ pc'[r] = "idle" /\ calls' # calls) =>
            (regFile' = regFile /\ store' = store)
       /\ (Finishes(r) /\ op[r] \in {"train", "train_anomaly"}
             /\ result'[r].status # "ok") =>
            /\ op[r] = "train" =>
                 LoadProductionModelInfo(regFile', model_id[r]) = production_model_info[r]
            /\ ~(/\ HasEntry(regFile', model_id[r])
                 /\ regFile'.data[model_id[r]].version = version[r])]_vars

\* C12: while a forecast training run is in progress for a model id that had
\* a production entry with an existing artifact when the run started (the
\* entry the run then read), every
\* prediction for that model id resolves a model: its read of the registry
\* returns the prior or the newly promoted version, and the artifact of the
\* version it read exists.
C12_PredictionResolvesDuringTraining ==
  [][\A r, q \in Runs :
       (/\ op[r] = "predict" /\ op[q] = "train" /\ pc[q] # "idle"
        /\ model_id[q] = model_id[r]
        /\ served_before[q] # None
        /\ production_model_info[q] = served_before[q]) =>
         /\ (pc[r] = "p_load_info" /\ pc'[r] # pc[r]) =>
              /\ production_model_info'[r] # None
              /\ production_model_info'[r].version \in
                   {served_before[q].version, version[q]}
         /\ (pc[r] = "p_load_model" /\ pc'[r] # pc[r]) =>
              LoadModel(store, model_id[r], production_model_info[r].version).found]_vars

\* a step taken by run r inside (or as the whole of) a predict or detect call
ReadOnlyCallStep(r) ==
  /\ op'[r] \in {"predict", "detect"}
  /\ \/ pc'[r] # pc[r]
     \/ calls' # calls /\ pc' = pc /\ pc[r] = "idle"

\* C13: every step of a predict or detect call, on its way to a result or to
\* an exception, leaves the registry file and the model store as they were.
C13_PredictDetectReadOnly ==
  [][\A r \in Runs : ReadOnlyCallStep(r) => (regFile' = regFile /\ store' = store)]_vars

C13_Witness ==
  \E r, q \in Runs :
    /\ Quiescent
    /\ op[r] = "predict" /\ result[r].status = "ok"
    /\ op[q] = "detect" /\ result[q].status = "ValueError"
    /\ HasEntry(regFile, model_id[r])
    /\ regFile.data[model_id[r]].path \in DOMAIN store

\* C14: a prediction whose model id has no readable production entry, or
\* whose entry names a version with no artifact in the model store, ends in
\* that step with a ValueError, which the /predict route answers with the
\* client error 400 (never 500).
C14_PredictNotFoundIsClientError ==
  [][\A r \in Runs :
       (op[r] = "predict" /\ pc'[r] # pc[r]
          /\ \/ pc[r] = "p_load_info" /\ ~HasEntry(regFile, model_id[r])
             \/ /\ pc[r] = "p_load_model"
                /\ FilePath(model_id[r], production_model_info[r].version)
                     \notin DOMAIN store) =>
         /\ pc'[r] = "idle"
         /\ result'[r].status = "ValueError"
         /\ PredictForecastRoute(result'[r].status) = 400]_vars

C14_Witness ==
  \E r, q \in Runs :
    /\ Quiescent
    /\ op[r] = "predict" /\ result[r].status = "ValueError"
    /\ production_model_info[r] # None
    /\ production_model_info[r].path \notin DOMAIN store
    /\ op[q] = "predict" /\ result[q].status = "ValueError"
    /\ model_id[q] \in ModelIds
    /\ production_model_info[q] = None
    /\ ~HasEntry(regFile, model_id[q])

C16_PredictReconcilesSchema ==
  (/\ last_call.op = "predict"
   /\ scaler # None
   /\ last_call.df.datetime_index
   /\ Range(scaler.features) \ Range(CreateFeatures(last_call.df.columns)) # {}) =>
    /\ last_call.status = "ok"
    /\ last_call.scored = scaler.features
    /\ last_call.labels = last_call.df.rows

\* C17: after predict(series, n) on a trained forecast adapter with a series
\* of at least 2 points in time order and n >= 0, the call has returned
\* exactly n points, the i-th of them i steps after the maximum timestamp of
\* the series, for one step: the single step of the series, or else one day.
C17_ForecastHorizon ==
  (/\ last_call.op = "predict"
   /\ prophet # None /\ prophet.fitted
   /\ Len(last_call.series) >= 2
   /\ \A i \in 1..(Len(last_call.series) - 1) :
        last_call.series[i] < last_call.series[i + 1]
   /\ last_call.n_predict >= 0) =>
    LET series == last_call.series
        steps == {series[i + 1] - series[i] : i \in 1..(Len(series) - 1)}
    IN /\ last_call.status = "ok"
       /\ Len(last_call.forecast) = last_call.n_predict
       /\ \E step \in {d \in steps : steps = {d}} \cup {Day} :
            \A i \in 1..Len(last_call.forecast) :
              last_call.forecast[i] = IndexMax(series) + i * step

\* C18: when the only two calls issued are training runs for two different
\* model ids that both promoted, then once both have returned the registry
\* holds both entries, each with the version and the metrics of its own run.
C18_LineagesIndependent ==
  \A r, q \in Runs :
    (/\ Quiescent /\ calls = 2
     /\ \A x \in {r, q} :
          /\ op[x] \in {"train", "train_anomaly"}
          /\ result[x].status = "ok"
          /\ result[x].model_version # None
     /\ model_id[r] # model_id[q]) =>
      \A x \in {r, q} :
        /\ HasEntry(regFile, model_id[x])
        /\ regFile.data[model_id[x]].version = result[x].model_version
        /\ regFile.data[model_id[x]].metrics = metrics[x]

\* C19: _get_next_version(app_id) never raises; it returns v(k+1) when the
\* registry file holds an entry for app_id whose version is vk, and v1 when
\* there is no file, when the file is unreadable or its content invalid, when
\* there is no entry for app_id, and when the entry's version is no vk.
C19_NextVersion ==
  last_call.op = "_get_next_version" =>
    LET m == last_call.app_id
        numbered == {k \in 0..MaxVersion :
                       /\ HasEntry(regFile, m)
                       /\ "version" \in DOMAIN regFile.data[m]
                       /\ regFile.data[m].version = <<"v">> \o Decimal(k)}
    IN /\ last_call.status = "ok"
       /\ \A k \in numbered : last_call.version = <<"v">> \o Decimal(k + 1)
       /\ numbered = {} => last_call.version = <<"v", "1">>

\* the adapter holds a fitted Prophet model
Trained(model) == model # None /\ model.fitted

\* C20: predict and evaluate on a forecast adapter on which no train has
\* succeeded yet raise the not-trained RuntimeError whatever their arguments;
\* a train on an empty series leaves such an adapter as it was; and an
\* adapter holding a fitted model keeps holding one.
C20_ForecastAdapterOneWay ==
  [][/\ (last_call'.op \in {"predict", "evaluate"} /\ ~last_call.trained) =>
          last_call'.status = "RuntimeError"
     /\ (last_call'.op = "train" /\ last_call'.series = <<>> /\ ~last_call.trained) =>
          (prophet' = prophet /\ ~last_call'.trained)
     /\ Trained(prophet) => Trained(prophet')]_vars

\* run q has written the entry of its version into the registry (the write
\* inside save_model comes before everything that follows it)
HasRecorded(q) ==
  /\ op[q] = "train" /\ version[q] # None
  /\ (pc[q] \in {"dump", "idle"} \/ caller[q] = "execute")

\* C21: when the only two calls issued are forecast training runs for one
\* model id, the version number the registry holds for that model id is never
\* lower than a version number one of the two runs has already recorded there.
C21_VersionNeverDecreases ==
  \A r, q \in Runs :
    (/\ calls = 2 /\ r # q
     /\ op[r] = "train" /\ op[q] = "train"
     /\ model_id[r] = model_id[q]
     /\ HasRecorded(q)
     /\ HasEntry(regFile, model_id[q])) =>
      VersionNumber(regFile.data[model_id[q]].version) >= VersionNumber(version[q])

====
